---- MODULE Spec2Model ----
(***************************************************************************)
(* more::dispatch_queue and more::dispatch_thread (more_dispatch.h), as a  *)
(* state machine of threads that share one queue: producers calling        *)
(* dispatch(), one consumer draining with run_forever() or with repeated   *)
(* run_once() calls, and the thread that owns and destroys the object.     *)
(* A step of a thread is one stretch of code between two points where the  *)
(* mutex is acquired, released or waited on.                               *)
(* Besides the configurations with one consumer (Spec, FairSpec) there are *)
(* the owner alone (SoloSpec), a queue whose polling thread gives up       *)
(* (HazardSpec), callables of several sizes (CapSpec), the earlier header  *)
(* include/more_dispatch.h (OldSpec) and two consumers (TwoSpec).          *)
(***************************************************************************)
EXTENDS Integers, Sequences, FiniteSets, TLC

\* ------------------------------------------------------------------ bounds
\* Number of task ids the producers may create.
MaxTasks == 3
\* The same number in the behaviours checked under fairness and in the
\* configurations with more threads or more kinds of client.
MaxFairTasks == 2
\* test_infinite_recursion dispatches two self-resubmitting tasks.
NumChains == 2

\* ----------------------------------------------------------------- threads
Producers == {"p1", "p2"}
Consumers == {"c1"}
Owner == "main"
Threads == Producers \cup Consumers \cup {Owner}
NoThread == "none"

VARIABLES
    limit,     \* number of task ids the client program creates
    mode,      \* "thread": dispatch_thread; "poll": dispatch_queue + run_once loop;
               \* "direct": as poll, after an explicit stop(); "solo": one thread;
               \* "workers": dispatch_queue + threads in run_forever
    client,    \* "tasks": finite tasks; "recursion": self-resubmitting tasks;
               \* "sized": callables of several sizes
    header,    \* "inline": the header with inline blocks; "unique_ptr": the
               \* header include/more_dispatch.h with heap-allocated blocks
    ndebug,    \* the program was compiled with NDEBUG: assert() does nothing
    _done,     \* dispatch_queue::_done
    _queue,    \* dispatch_queue::_queue
    mutex,     \* owner of dispatch_queue::_mutex, or NoThread
    pc,        \* position of every thread
    q,         \* the local vector q of run_once / run_forever, per consumer
    i,         \* position of the range-for over q, per consumer
    cur,       \* the block a producer is dispatching
    result,    \* value returned by the thread's last dispatch()
    late,      \* history: the thread's dispatch() started after a stop() returned
    nextId,    \* next unused task id
    ostep,     \* position of the owner in its destructor sequence
    stopAt,    \* history: Len(invoked) when the first stop() returned, else -1
    owed,      \* history: blocks not yet invoked when the first stop() returned
    after,     \* history: blocks whose invoke() began after that return
    accepted,  \* history: blocks in the order they were appended
    invoked    \* history: blocks in the order their invoke() began

vars == <<limit, mode, client, header, ndebug, _done, _queue, mutex, pc, q, i, cur,
          result, late, nextId, ostep, stopAt, owed, after, accepted, invoked>>

\* Length of the recorded histories (accepted, invoked).
MaxHist == limit + 1

\* history: some stop() has returned
stopped == stopAt >= 0

\* ------------------------------------------------------------------ blocks
\* sizeof(dispatch_block) in pointer widths: the vtable pointer and _space[3].
BlockWords == 4

\* sizeof(movable_function<F>) in pointer widths for the lambdas of the test
\* program: the vtable pointer and the captured references (two in
\* infinite_increment's lambda, at most one elsewhere).
WrapperWords(k) == IF k = "chain" THEN 3 ELSE 2

NoBlock == [id |-> 0, kind |-> "none", words |-> 0]

Block(n, k) == [id |-> n, kind |-> k, words |-> WrapperWords(k)]

\* A callable with `extra` pointer widths of captured state beyond three.
Sized(n, extra) == [id |-> n, kind |-> "plain", words |-> BlockWords + extra]

\* movable_function::move_to: assert(size >= sizeof(*this));
Fits(b) == BlockWords >= b.words

\* A "spawn" block dispatches one plain block from inside its invocation, a
\* "chain" block dispatches a copy of itself (infinite_increment).
Dispatches(b) == b.kind \in {"spawn", "chain"}

infinite_increment(b) == b

Child(b) == IF b.kind = "chain" THEN infinite_increment(b)
            ELSE Block(b.id + 1, "plain")

\* A spawn block reserves the id of the block it will dispatch.
IdsOf(b) == IF b.kind = "spawn" THEN 2 ELSE 1

\* The blocks a producer may dispatch next.
NewBlocks ==
    IF client = "tasks"
    THEN {b \in {Block(nextId, "plain"), Block(nextId, "spawn")} :
             nextId + IdsOf(b) - 1 <= limit}
    ELSE IF client = "sized"
    THEN {b \in {Sized(nextId, 0), Sized(nextId, 1)} : nextId <= limit}
    ELSE {b \in {Block(nextId, "chain")} : nextId <= NumChains}

\* The histories keep the first MaxHist events.
Hist(h, b) == IF Len(h) < MaxHist THEN Append(h, b) ELSE h

\* ------------------------------------------------------- pieces of the code
\* A _dispatch that forgets to test _done.
DispatchAcceptsAlways(done) == TRUE

\* _dispatch: if (_done) return false;
DispatchAccepts(done) == ~done

\* A _dispatch that inserts at the front of the vector.
push_front(s, b) == <<b>> \o s

\* _dispatch: _queue.push_back(std::move(block));
push_back(s, b) == Append(s, b)

\* A swap that exchanges nothing.
no_swap(local, shared) == <<local, shared>>

\* A copy in place of the swap: _queue keeps its blocks.
copy(local, shared) == <<shared, shared>>

\* std::swap(q, _queue): <<new q, new _queue>>
swap(local, shared) == <<shared, local>>

\* A loop that waits for blocks even when the queue is stopped.
RunForeverWaitsWhileEmpty(queue, done) == queue = <<>>

\* The loop condition with the test of _done inverted.
RunForeverWaitsWhileDone(queue, done) == queue = <<>> /\ done

\* run_forever: while (_queue.empty() && !_done) _cond.wait(lock);
RunForeverWaits(queue, done) == queue = <<>> /\ ~done

\* A wait_until_done that only waits for the stop.
WaitsOnlyForStop(queue, done) == ~done

\* wait_until_done: while (!_done || !_queue.empty()) _cond.wait(lock);
WaitUntilDoneWaits(queue, done) == ~done \/ queue # <<>>

\* run_once: if (q.empty() && _done)
RunOnceNotifies(batch, done) == batch = <<>> /\ done

\* A lock that is still held when the blocks are invoked.
ScopeKeepsLock(th) == th

\* the end of the scope of the lock that guards the swap
ScopeExit(th) == NoThread

\* _cond.notify_all(): every thread blocked in _cond.wait becomes runnable and
\* has to take the mutex again before it re-tests its loop condition.
Woken(label) == IF label = "f_wait" THEN "f_lock"
                ELSE IF label = "w_wait" THEN "wait_lock"
                ELSE label

notify_all(p) == [th \in DOMAIN p |-> Woken(p[th])]

\* A _dispatch that wakes nobody.
DispatchNotifiesNobody(p) == p

DispatchNotify(p) == notify_all(p)

\* A stop() that leaves the flag as it is.
StopLeaves(done) == done

\* A stop() that flips the flag.
StopToggles(done) == ~done

\* stop: _done = true;
StopSets(done) == TRUE

\* A stop() that wakes nobody.
StopNotifiesNobody(p) == p

StopNotify(p) == notify_all(p)

\* A run_forever that returns without a notification.
RunForeverNotifiesNobody(p) == p

RunForeverNotify(p) == notify_all(p)
RunOnceNotify(p) == notify_all(p)

\* A ~dispatch_thread that does not join its thread.
dispatch_thread_dtor_no_join == <<"stop_lock", "wait_lock">>

\* ~dispatch_thread: stop(); wait_until_done(); join();
dispatch_thread_dtor == <<"stop_lock", "wait_lock", "join">>

\* ~dispatch_queue: stop(); wait_until_done();
dispatch_queue_dtor == <<"stop_lock", "wait_lock">>

\* Destroying a dispatch_thread runs its destructor and then the destructor
\* of its member _queue.
\* test_dispatch_queue, on one thread: t.stop(); t.run_forever(); and the
\* destructor of t.
test_dispatch_queue == <<"stop_lock", "f_lock">> \o dispatch_queue_dtor

\* A queue that is stopped by hand before it is destroyed.
stop_then_dtor == <<"stop_lock">> \o dispatch_queue_dtor

Script(m) == IF m = "thread" THEN dispatch_thread_dtor \o dispatch_queue_dtor
             ELSE IF m = "solo" THEN test_dispatch_queue
             ELSE IF m = "direct" THEN stop_then_dtor
             ELSE dispatch_queue_dtor

OwnerNext(m, k) == IF k + 1 > Len(Script(m)) THEN "end" ELSE Script(m)[k + 1]

\* Entry point of the consumer's draining call.
Entry(m) == IF m \in {"thread", "solo", "workers"} THEN "f_lock"
            ELSE "r_lock"

InTask(label) == label \in {"running", "d_lock", "d_body"}

\* The thread is inside the range-for of a draining call.
InBatch(th) == th \in DOMAIN q /\ q[th] # <<>>

Range(s) == {s[k] : k \in DOMAIN s}

\* The blocks of a consumer's q whose invocation has not begun.
Pending(c) == IF InTask(pc[c]) THEN SubSeq(q[c], i[c] + 1, Len(q[c]))
              ELSE SubSeq(q[c], i[c], Len(q[c]))

\* history: the blocks accepted and not yet invoked, in _queue or in a batch.
RECURSIVE Backlog(_)
Backlog(cs) == IF cs = {} THEN Len(_queue)
               ELSE LET c == CHOOSE x \in cs : TRUE
                    IN  Len(Pending(c)) + Backlog(cs \ {c})

\* -------------------------------------------------------------------- Init
\* The state after construction of the queue, with the threads of the client
\* program, compiled with or without NDEBUG (the test program relies on its
\* assertions, so it is compiled without): `callers` call dispatch(),
\* `drainers` call run_once/run_forever (the owner, when it drains, does so
\* from its script).
Boot(n, m, cl, h, nd, callers, drainers) ==
    /\ limit = n
    /\ mode = m
    /\ client = cl
    /\ header = h
    /\ ndebug = nd
    /\ _done = FALSE
    /\ _queue = <<>>
    /\ mutex = NoThread
    /\ pc = [th \in callers \cup drainers \cup {Owner} |->
                IF th = Owner THEN "alive"
                ELSE IF th \in drainers THEN Entry(m)
                ELSE "idle"]
    /\ q = [c \in drainers |-> <<>>]
    /\ i = [c \in drainers |-> 1]
    /\ cur = [p \in callers |-> NoBlock]
    /\ result = [th \in callers \cup drainers \cup {Owner} |-> "none"]
    /\ late = [th \in callers \cup drainers \cup {Owner} |-> FALSE]
    /\ nextId = 1
    /\ ostep = 0
    /\ stopAt = -1
    /\ owed = -1
    /\ after = <<>>
    /\ accepted = <<>>
    /\ invoked = <<>>

Start(n) ==
    \E m \in {"thread", "poll"}, cl \in {"tasks", "recursion"} :
        /\ (cl = "recursion" => m = "thread")
        /\ Boot(n, m, cl, "inline", FALSE, Producers, Consumers)

Init == Start(MaxTasks)

FairInit == Start(MaxFairTasks)

\* ---------------------------------------------------------------- dispatch
\* dispatch(F&& lambda): wraps the lambda and calls _dispatch.
ProducerStart(p) ==
    /\ pc[p] = "idle"
    /\ \E b \in NewBlocks :
          /\ Fits(b)
          /\ cur' = [cur EXCEPT ![p] = b]
          /\ nextId' = nextId + IdsOf(b)
    /\ pc' = [pc EXCEPT ![p] = "d_lock"]
    /\ result' = [result EXCEPT ![p] = "none"]
    /\ late' = [late EXCEPT ![p] = stopped]
    /\ UNCHANGED <<limit, mode, client, header, ndebug, _done, _queue, mutex,
                   q, i, ostep, stopAt, owed, after, accepted, invoked>>

\* _dispatch: std::lock_guard<std::mutex> lock(_mutex);
DispatchLock(th) ==
    /\ pc[th] = "d_lock"
    /\ mutex = NoThread
    /\ mutex' = th
    /\ pc' = [pc EXCEPT ![th] = "d_body"]
    /\ UNCHANGED <<limit, mode, client, header, ndebug, _done, _queue, q, i,
                   cur, result, late, nextId, ostep, stopAt, owed, after,
                   accepted, invoked>>

\* The block that the thread's dispatch() call carries.
Arg(th) == IF InBatch(th) THEN Child(q[th][i[th]]) ELSE cur[th]

\* Where the thread continues when its dispatch() has returned: a producer is
\* idle again; in a consumer the invocation that called dispatch() returns and
\* the range-for moves on, leaving the drain pass after the last block.
AfterTask(c) == IF i[c] < Len(q[c]) THEN "next" ELSE Entry(mode)

AfterDispatch(th) == IF InBatch(th) THEN AfterTask(th)
                     ELSE IF th = Owner THEN "alive"
                     ELSE "idle"

\* _dispatch, with the lock held, up to the return that releases it.
DispatchBody(th) ==
    /\ pc[th] = "d_body"
    /\ mutex = th
    /\ IF DispatchAccepts(_done)
       THEN /\ _queue' = push_back(_queue, Arg(th))
            /\ accepted' = Hist(accepted, Arg(th))
            /\ pc' = [DispatchNotify(pc) EXCEPT ![th] = AfterDispatch(th)]
            /\ result' = [result EXCEPT ![th] = "true"]
       ELSE /\ pc' = [pc EXCEPT ![th] = AfterDispatch(th)]
            /\ result' = [result EXCEPT ![th] = "false"]
            /\ UNCHANGED <<_queue, accepted>>
    /\ mutex' = NoThread
    /\ IF InBatch(th)
       THEN IF i[th] < Len(q[th])
            THEN i' = [i EXCEPT ![th] = i[th] + 1] /\ q' = q
            ELSE i' = [i EXCEPT ![th] = 1] /\ q' = [q EXCEPT ![th] = <<>>]
       ELSE UNCHANGED <<q, i>>
    /\ UNCHANGED <<limit, mode, client, header, ndebug, _done, cur, late,
                   nextId, ostep, stopAt, owed, after, invoked>>

\* -------------------------------------------------------------------- stop
\* The owner starts to destroy the object.
OwnerBegin ==
    /\ pc[Owner] = "alive"
    /\ ostep' = 1
    /\ pc' = [pc EXCEPT ![Owner] = Script(mode)[1]]
    /\ UNCHANGED <<limit, mode, client, header, ndebug, _done, _queue, mutex,
                   q, i, cur, result, late, nextId, stopAt, owed, after,
                   accepted, invoked>>

\* stop: std::lock_guard<std::mutex> lock(_mutex);
StopLock(th) ==
    /\ pc[th] = "stop_lock"
    /\ mutex = NoThread
    /\ mutex' = th
    /\ pc' = [pc EXCEPT ![th] = "stop_body"]
    /\ UNCHANGED <<limit, mode, client, header, ndebug, _done, _queue, q, i,
                   cur, result, late, nextId, ostep, stopAt, owed, after,
                   accepted, invoked>>

\* stop: _done = true; _cond.notify_all(); and the return.
StopBody(th) ==
    /\ pc[th] = "stop_body"
    /\ mutex = th
    /\ _done' = StopSets(_done)
    /\ pc' = [StopNotify(pc) EXCEPT ![th] = OwnerNext(mode, ostep)]
    /\ mutex' = NoThread
    /\ ostep' = ostep + 1
    /\ stopAt' = IF stopped THEN stopAt ELSE Len(invoked)
    /\ owed' = IF stopped THEN owed ELSE Backlog(DOMAIN q)
    /\ after' = after
    /\ UNCHANGED <<limit, mode, client, header, ndebug, _queue, q, i, cur,
                   result, late, nextId, accepted, invoked>>

\* --------------------------------------------------------- wait_until_done
\* wait_until_done: std::unique_lock<std::mutex> lock(_mutex); also the
\* re-acquisition of the mutex at the end of _cond.wait(lock).
WaitLock(th) ==
    /\ pc[th] = "wait_lock"
    /\ mutex = NoThread
    /\ mutex' = th
    /\ pc' = [pc EXCEPT ![th] = "wait_check"]
    /\ UNCHANGED <<limit, mode, client, header, ndebug, _done, _queue, q, i,
                   cur, result, late, nextId, ostep, stopAt, owed, after,
                   accepted, invoked>>

\* wait_until_done: the test of the while loop, then _cond.wait or return.
WaitCheck(th) ==
    /\ pc[th] = "wait_check"
    /\ mutex = th
    /\ mutex' = NoThread
    /\ IF WaitUntilDoneWaits(_queue, _done)
       THEN /\ pc' = [pc EXCEPT ![th] = "w_wait"]
            /\ ostep' = ostep
       ELSE /\ pc' = [pc EXCEPT ![th] = OwnerNext(mode, ostep)]
            /\ ostep' = ostep + 1
    /\ UNCHANGED <<limit, mode, client, header, ndebug, _done, _queue, q, i,
                   cur, result, late, nextId, stopAt, owed, after, accepted,
                   invoked>>

\* ~dispatch_thread: _thread.join();
Join(th) ==
    /\ pc[th] = "join"
    /\ \A c \in DOMAIN q : pc[c] = "returned"
    /\ pc' = [pc EXCEPT ![th] = OwnerNext(mode, ostep)]
    /\ ostep' = ostep + 1
    /\ UNCHANGED <<limit, mode, client, header, ndebug, _done, _queue, mutex,
                   q, i, cur, result, late, nextId, stopAt, owed, after,
                   accepted, invoked>>

\* A thread blocked in _cond.wait may wake up without a notification.
SpuriousWake(th) ==
    /\ pc[th] \in {"f_wait", "w_wait"}
    /\ pc' = [pc EXCEPT ![th] = Woken(pc[th])]
    /\ UNCHANGED <<limit, mode, client, header, ndebug, _done, _queue, mutex,
                   q, i, cur, result, late, nextId, ostep, stopAt, owed,
                   after, accepted, invoked>>

\* ------------------------------------------------------------- run_forever
\* run_forever: std::unique_lock<std::mutex> lock(_mutex); also the
\* re-acquisition of the mutex at the end of _cond.wait(lock).
RunForeverLock(c) ==
    /\ pc[c] = "f_lock"
    /\ mutex = NoThread
    /\ mutex' = c
    /\ pc' = [pc EXCEPT ![c] = "f_check"]
    /\ UNCHANGED <<limit, mode, client, header, ndebug, _done, _queue, q, i,
                   cur, result, late, nextId, ostep, stopAt, owed, after,
                   accepted, invoked>>

\* run_forever: the test of the inner while loop, then _cond.wait, or the
\* swap and the end of the locked scope.
RunForeverSwap(c) ==
    /\ pc[c] = "f_check"
    /\ mutex = c
    /\ IF RunForeverWaits(_queue, _done)
       THEN /\ pc' = [pc EXCEPT ![c] = "f_wait"]
            /\ mutex' = NoThread
            /\ UNCHANGED <<_queue, q, i>>
       ELSE /\ q' = [q EXCEPT ![c] = swap(q[c], _queue)[1]]
            /\ _queue' = swap(q[c], _queue)[2]
            /\ i' = [i EXCEPT ![c] = 1]
            /\ pc' = [pc EXCEPT ![c] = "f_test"]
            /\ mutex' = ScopeExit(c)
    /\ UNCHANGED <<limit, mode, client, header, ndebug, _done, cur, result,
                   late, nextId, ostep, stopAt, owed, after, accepted,
                   invoked>>

\* Where run_forever returns to: the thread function of a dispatch_thread
\* ends, the owner goes on with its script.
Returned(c) == IF c = Owner THEN OwnerNext(mode, ostep) ELSE "returned"

\* run_forever: if (q.empty()) { assert(_done); _cond.notify_all(); return; }
\* The assertion reads _done without the lock; when it fails the program aborts.
\* In include/more_dispatch.h: if (q.empty()) return;
RunForeverExit(c) ==
    /\ pc[c] = "f_test"
    /\ q[c] = <<>>
    /\ IF header = "unique_ptr"
       THEN pc' = [pc EXCEPT ![c] = Returned(c)]
       ELSE IF _done \/ ndebug
       THEN pc' = [RunForeverNotify(pc) EXCEPT ![c] = Returned(c)]
       ELSE pc' = [pc EXCEPT ![c] = "abort"]
    /\ ostep' = IF c = Owner /\ pc'[c] # "abort" THEN ostep + 1 ELSE ostep
    /\ UNCHANGED <<limit, mode, client, header, ndebug, _done, _queue, mutex,
                   q, i, cur, result, late, nextId, stopAt, owed, after,
                   accepted, invoked>>

\* ---------------------------------------------------------------- run_once
\* run_once: std::lock_guard<std::mutex> lock(_mutex);
RunOnceLock(c) ==
    /\ pc[c] = "r_lock"
    /\ mutex = NoThread
    /\ mutex' = c
    /\ pc' = [pc EXCEPT ![c] = "r_swap"]
    /\ UNCHANGED <<limit, mode, client, header, ndebug, _done, _queue, q, i,
                   cur, result, late, nextId, ostep, stopAt, owed, after,
                   accepted, invoked>>

\* run_once: std::swap(q, _queue); and the end of the locked scope.
RunOnceSwap(c) ==
    /\ pc[c] = "r_swap"
    /\ mutex = c
    /\ q' = [q EXCEPT ![c] = swap(q[c], _queue)[1]]
    /\ _queue' = swap(q[c], _queue)[2]
    /\ i' = [i EXCEPT ![c] = 1]
    /\ pc' = [pc EXCEPT ![c] = "r_test"]
    /\ mutex' = ScopeExit(c)
    /\ UNCHANGED <<limit, mode, client, header, ndebug, _done, cur, result,
                   late, nextId, ostep, stopAt, owed, after, accepted,
                   invoked>>

\* run_once with an empty q: if (q.empty() && _done) { notify_all; return; },
\* else the range-for over the empty q and the return. _done is read without
\* the lock. The caller calls run_once again. The run_once of
\* include/more_dispatch.h has no such test and returns silently.
RunOnceEmpty(c) ==
    /\ pc[c] = "r_test"
    /\ q[c] = <<>>
    /\ IF header = "inline" /\ RunOnceNotifies(q[c], _done)
       THEN pc' = [RunOnceNotify(pc) EXCEPT ![c] = "r_lock"]
       ELSE pc' = [pc EXCEPT ![c] = "r_lock"]
    /\ UNCHANGED <<limit, mode, client, header, ndebug, _done, _queue, mutex,
                   q, i, cur, result, late, nextId, ostep, stopAt, owed,
                   after, accepted, invoked>>

\* ------------------------------------------------------------------ invoke
\* for (auto& block : q) block.invoke(); the invocation of the next block
\* begins. A block that dispatches starts its dispatch() call.
InvokeBegin(c) ==
    /\ pc[c] \in {"f_test", "r_test", "next"}
    /\ i[c] <= Len(q[c])
    /\ invoked' = Hist(invoked, q[c][i[c]])
    /\ after' = IF stopped THEN Hist(after, q[c][i[c]]) ELSE after
    /\ IF Dispatches(q[c][i[c]])
       THEN /\ pc' = [pc EXCEPT ![c] = "d_lock"]
            /\ result' = [result EXCEPT ![c] = "none"]
            /\ late' = [late EXCEPT ![c] = stopped]
       ELSE /\ pc' = [pc EXCEPT ![c] = "running"]
            /\ UNCHANGED <<result, late>>
    /\ UNCHANGED <<limit, mode, client, header, ndebug, _done, _queue, mutex,
                   q, i, cur, nextId, ostep, stopAt, owed, accepted>>

\* The invocation of a block that does not dispatch returns; after the last
\* block of q the drain pass ends and q is destroyed.
InvokeEnd(c) ==
    /\ pc[c] = "running"
    /\ pc' = [pc EXCEPT ![c] = AfterTask(c)]
    /\ IF i[c] < Len(q[c])
       THEN i' = [i EXCEPT ![c] = i[c] + 1] /\ q' = q
       ELSE i' = [i EXCEPT ![c] = 1] /\ q' = [q EXCEPT ![c] = <<>>]
    /\ UNCHANGED <<limit, mode, client, header, ndebug, _done, _queue, mutex,
                   cur, result, late, nextId, ostep, stopAt, owed, after,
                   accepted, invoked>>

\* -------------------------------------------------------------------- Next
Next ==
    \/ \E p \in Producers : ProducerStart(p)
    \/ \E th \in Producers \cup Consumers : DispatchLock(th)
    \/ \E th \in Producers \cup Consumers : DispatchBody(th)
    \/ OwnerBegin
    \/ StopLock(Owner)
    \/ StopBody(Owner)
    \/ WaitLock(Owner)
    \/ WaitCheck(Owner)
    \/ Join(Owner)
    \/ \E th \in Threads : SpuriousWake(th)
    \/ \E c \in Consumers : RunForeverLock(c)
    \/ \E c \in Consumers : RunForeverSwap(c)
    \/ \E c \in Consumers : RunForeverExit(c)
    \/ \E c \in Consumers : RunOnceLock(c)
    \/ \E c \in Consumers : RunOnceSwap(c)
    \/ \E c \in Consumers : RunOnceEmpty(c)
    \/ \E c \in Consumers : InvokeBegin(c)
    \/ \E c \in Consumers : InvokeEnd(c)

Spec == Init /\ [][Next]_vars

\* ---------------------------------------------------------------- fairness
\* A thread inside a call keeps running: the scheduler does not starve a
\* runnable thread, and a thread that asks for the mutex gets it when the
\* mutex is released again and again. Nothing forces a producer to call
\* dispatch(), the owner to destroy the object, or a blocked thread to wake
\* up without a notification.
ProducerStep(p) == DispatchLock(p) \/ DispatchBody(p)

ConsumerStep(c) ==
    \/ DispatchLock(c) \/ DispatchBody(c)
    \/ RunForeverLock(c) \/ RunForeverSwap(c) \/ RunForeverExit(c)
    \/ RunOnceLock(c) \/ RunOnceSwap(c) \/ RunOnceEmpty(c)
    \/ InvokeBegin(c) \/ InvokeEnd(c)

OwnerStep ==
    \/ StopLock(Owner) \/ StopBody(Owner)
    \/ WaitLock(Owner) \/ WaitCheck(Owner)
    \/ Join(Owner)

Fairness ==
    /\ \A p \in Producers : SF_vars(ProducerStep(p))
    /\ \A c \in Consumers : SF_vars(ConsumerStep(c))
    /\ SF_vars(OwnerStep)

FairSpec == FairInit /\ [][Next]_vars /\ Fairness

\* ------------------------------------------------------------ observations
IsPrefix(s, t) == Len(s) <= Len(t) /\ \A k \in 1..Len(s) : s[k] = t[k]

Trunc(s) == IF Len(s) <= MaxHist THEN s ELSE SubSeq(s, 1, MaxHist)

TheConsumer == CHOOSE c \in Consumers : TRUE

\* C1. FIFO: with a single consumer the blocks begin their invocation in
\* exactly the order in which _dispatch appended them, whatever the number of
\* producers, across batches, and for blocks dispatched by a running block:
\* the invocation history is at every moment a prefix of the append history.
C1_FIFO == IsPrefix(invoked, accepted)

\* Three blocks invoked: a block that dispatches a child from inside its
\* invocation, appended before a block that a concurrent producer had created
\* earlier, and the child, invoked in a later batch.
C1_Witness ==
    /\ Len(invoked) >= 3
    /\ invoked[1].kind = "spawn"
    /\ invoked[1].id > invoked[2].id
    /\ invoked[3].id = invoked[1].id + 1

\* C2. No loss, no duplication: at every moment the appended blocks are
\* exactly the invoked ones, then the ones of the consumer's batch not yet
\* invoked, then the ones in _queue; a dispatch() that returned true appended
\* its block and one that returned false did not; when run_forever has
\* returned, as many invocations have begun as blocks were appended and
\* nothing is left in the batch or in _queue.
C2_NoLossNoDup ==
    /\ accepted = Trunc(invoked \o Pending(TheConsumer) \o _queue)
    /\ \A p \in Producers :
          /\ (result[p] = "true" /\ Len(accepted) < MaxHist)
                => cur[p] \in Range(accepted)
          /\ (result[p] = "false" /\ client = "tasks")
                => cur[p] \notin Range(accepted)
    /\ client = "tasks" =>
          \A j, k \in 1..Len(invoked) : invoked[j] = invoked[k] => j = k
    /\ pc[TheConsumer] = "returned" =>
          /\ Len(invoked) = Len(accepted)
          /\ Pending(TheConsumer) = <<>>
          /\ _queue = <<>>

\* run_forever has returned after it invoked blocks of both producers.
C2_Witness ==
    /\ pc[TheConsumer] = "returned"
    /\ Len(invoked) >= 3
    /\ result["p1"] = "true" /\ cur["p1"] \in Range(invoked)
    /\ result["p2"] = "true" /\ cur["p2"] \in Range(invoked)
    /\ cur["p1"] # cur["p2"]

\* C3. Closed-queue rejection: a dispatch() that starts after a stop() has
\* returned, in a producer or inside a running block, returns false, and no
\* step taken while _done is true makes _queue longer or appends a block.
C3_ClosedRejection ==
    /\ [](\A th \in Threads :
             (late[th] /\ result[th] # "none") => result[th] = "false")
    /\ [][_done => (accepted' = accepted /\ Len(_queue') <= Len(_queue))]_vars

\* After stop(), a producer's dispatch() and the dispatch() of a running
\* block have both returned false.
C3_Witness ==
    /\ late[TheConsumer] /\ result[TheConsumer] = "false"
    /\ \E p \in Producers : late[p] /\ result[p] = "false"

\* C4. Eventual invocation: when the consumer keeps draining and the threads
\* are scheduled fairly, the k-th appended block is eventually the k-th
\* invoked block, for every k, whether or not stop() is called meanwhile and
\* whoever dispatched it.
C4_EventuallyInvoked ==
    \A k \in 1..(MaxFairTasks + 1) :
        (Len(accepted) >= k)
            ~> (Len(invoked) >= k /\ invoked[k] = accepted[k])

\* A running block dispatched a block, then stop() returned, and the block
\* dispatched from inside the invocation has been invoked since.
C4_Witness ==
    /\ stopAt = 1
    /\ Len(invoked) >= 2
    /\ invoked = accepted
    /\ invoked[1].kind = "spawn"
    /\ invoked[2].id = invoked[1].id + 1

\* The owner's first wait_until_done() has returned (it is the second call
\* of either destructor).
WaitReturned == ostep > 2

\* The body of ~dispatch_thread has returned.
ThreadDtorReturned == mode = "thread" /\ ostep > Len(dispatch_thread_dtor)

\* Every appended block has been invoked and its invocation has returned.
AllFinished ==
    /\ invoked = accepted
    /\ \A c \in Consumers : ~InTask(pc[c]) /\ Pending(c) = <<>>

\* C5. Drain completeness: once wait_until_done() has returned the queue is
\* closed, _queue is empty and no appended block remains un-invoked or in
\* the middle of its invocation, the blocks of the consumer's batch included;
\* so the destructor of dispatch_queue completes only after every appended
\* block has been invoked.
C5_DrainComplete ==
    WaitReturned => (_done /\ _queue = <<>> /\ AllFinished)

\* C6. When ~dispatch_thread has returned, the thread has left run_forever,
\* every appended block has finished its invocation, they were invoked in
\* the order of their appends, and no invocation begins afterwards.
C6_ThreadDestruction ==
    /\ [](ThreadDtorReturned =>
             /\ pc[TheConsumer] = "returned"
             /\ _queue = <<>>
             /\ AllFinished)
    /\ [][ThreadDtorReturned =>
             (invoked' = invoked /\ pc'[TheConsumer] = pc[TheConsumer])]_vars

\* test_dispatch_thread: three blocks were dispatched, the destructor began
\* before any of them was invoked, and it has returned.
C6_Witness ==
    /\ ThreadDtorReturned
    /\ stopAt = 0
    /\ Len(invoked) = 3

\* C7. Shutdown with recursive resubmission terminates: with the
\* self-resubmitting blocks of test_infinite_recursion on a dispatch_thread,
\* once the owner has begun to destroy the object, under fair scheduling the
\* destruction completes: run_forever returns, wait_until_done returns and
\* the thread is joined.
C7_RecursionTerminates ==
    (client = "recursion" /\ pc[Owner] # "alive")
        ~> (pc[Owner] = "end" /\ pc[TheConsumer] = "returned")

\* Both chains ran, the last dispatch() of a chain returned false, and the
\* destruction is complete.
C7_Witness ==
    /\ client = "recursion"
    /\ pc[Owner] = "end"
    /\ {b.id : b \in Range(invoked)} = 1..NumChains
    /\ Len(invoked) > NumChains
    /\ result[TheConsumer] = "false"

\* C8. Reentrant submission: the consumer does not hold the mutex while it
\* invokes a block or is between two invocations, so the dispatch() of a
\* running block takes a free mutex; on an open queue that dispatch() returns
\* true and appends the new block at the tail of _queue, and the batch under
\* execution does not change.
C8_Reentrant ==
    /\ [](\A c \in Consumers :
             pc[c] \in {"f_test", "r_test", "next", "running", "d_lock"}
                => mutex # c)
    /\ [][\A c \in Consumers :
             (pc[c] = "d_body" /\ pc'[c] # "d_body" /\ ~_done) =>
                /\ result'[c] = "true"
                /\ _queue' = Append(_queue, Child(q[c][i[c]]))
                /\ (i[c] < Len(q[c]) => q'[c] = q[c])]_vars

\* A running block's dispatch() returned true and its block sits in _queue
\* behind a block that a producer appended during the invocation.
C8_Witness ==
    /\ result[TheConsumer] = "true"
    /\ Len(invoked) >= 1
    /\ invoked[Len(invoked)].kind = "spawn"
    /\ Len(_queue) = 2
    /\ _queue[2].id = invoked[Len(invoked)].id + 1
    /\ _queue[1].id > _queue[2].id

\* C9. run_forever postcondition: an empty batch comes out of the swap only
\* when _done is true, so assert(_done) never fails, and once run_forever
\* has returned the queue is stopped and _queue is empty.
C9_RunForeverPost ==
    \A c \in Consumers :
        /\ pc[c] # "abort"
        /\ (pc[c] = "f_test" /\ q[c] = <<>>) => _done
        /\ pc[c] = "returned" => (_done /\ _queue = <<>>)

\* run_forever has returned after it drained blocks, and a dispatch() that
\* came too late was refused.
C9_Witness ==
    /\ pc[TheConsumer] = "returned"
    /\ Len(invoked) >= 2
    /\ \E p \in Producers : result[p] = "false"

\* C10. wait_until_done() is always woken: with a fairly scheduled consumer
\* (run_forever, or run_once called again and again) the owner's
\* wait_until_done(), which follows its stop(), eventually returns.
C10_WaitReturns == (ostep = 2) ~> (ostep > 2)

\* The waiter is blocked in _cond.wait while the queue is already closed and
\* empty: the consumer swapped the last blocks out after the waiter's test.
C10_Witness ==
    /\ pc[Owner] = "w_wait"
    /\ ostep = 2
    /\ _done
    /\ _queue = <<>>

\* ------------------------------------------------- one thread, no consumer
\* test_dispatch_queue: the thread that owns the queue dispatches, stops,
\* drains with run_forever() and destroys the queue; there is no other thread.
SoloInit ==
    \E cl \in {"tasks", "recursion"} :
        Boot(MaxTasks, "solo", cl, "inline", FALSE, {Owner}, {Owner})

\* t.dispatch(...) called by the owner before it stops the queue.
OwnerDispatch ==
    /\ pc[Owner] = "alive"
    /\ \E b \in NewBlocks :
          /\ Fits(b)
          /\ cur' = [cur EXCEPT ![Owner] = b]
          /\ nextId' = nextId + IdsOf(b)
    /\ pc' = [pc EXCEPT ![Owner] = "d_lock"]
    /\ result' = [result EXCEPT ![Owner] = "none"]
    /\ late' = [late EXCEPT ![Owner] = stopped]
    /\ UNCHANGED <<limit, mode, client, header, ndebug, _done, _queue, mutex,
                   q, i, ostep, stopAt, owed, after, accepted, invoked>>

\* The steps of the calls the owner has entered.
SoloRun ==
    \/ DispatchLock(Owner)
    \/ DispatchBody(Owner)
    \/ StopLock(Owner)
    \/ StopBody(Owner)
    \/ RunForeverLock(Owner)
    \/ RunForeverSwap(Owner)
    \/ RunForeverExit(Owner)
    \/ InvokeBegin(Owner)
    \/ InvokeEnd(Owner)
    \/ WaitLock(Owner)
    \/ WaitCheck(Owner)

SoloNext == OwnerDispatch \/ OwnerBegin \/ SoloRun

\* The single thread keeps executing the call it is in.
SoloSpec == SoloInit /\ [][SoloNext]_vars /\ WF_vars(SoloRun)

\* The owner's run_forever() has returned.
SoloDrained == mode = "solo" /\ ostep > 2

C11_Safe ==
    /\ pc[Owner] \notin {"f_wait", "w_wait", "abort"}
    /\ IsPrefix(invoked, accepted)
    /\ \A k \in 1..Len(accepted) : accepted[k].id < nextId
    /\ (ostep = 1 /\ pc[Owner] = "stop_lock") => _queue = accepted
    /\ SoloDrained =>
          /\ invoked = accepted
          /\ _queue = <<>>
          /\ q[Owner] = <<>>
          /\ _done

\* C11. Single-threaded flush: on a queue that only its owner uses, after
\* the owner dispatched its tasks and called stop(), run_forever() on the same
\* thread never waits on the condition variable, invokes the accepted tasks in
\* the order of submission and returns with the queue empty; the destructor
\* that follows never waits either, and the whole sequence runs to its end.
C11_SoloFlush ==
    /\ []C11_Safe
    /\ (ostep = 1) ~> (pc[Owner] = "end")

\* The owner dispatched three tasks, flushed them and destroyed the queue.
C11_Witness ==
    /\ mode = "solo"
    /\ pc[Owner] = "end"
    /\ Len(invoked) = 3
    /\ stopAt = 0


\* ----------------------------------- a queue that nobody drains any more
\* A dispatch_queue used directly: producers dispatch, a thread polls with
\* run_once() and may stop polling for good, the owner calls stop() and then
\* destroys the queue.
HazardInit == Boot(MaxTasks, "direct", "tasks", "inline", FALSE, Producers,
                   Consumers)

\* The polling thread returns from its loop and never calls run_once() again.
ConsumerQuit(c) ==
    /\ pc[c] = "r_lock"
    /\ pc' = [pc EXCEPT ![c] = "off"]
    /\ UNCHANGED <<limit, mode, client, header, ndebug, _done, _queue, mutex,
                   q, i, cur, result, late, nextId, ostep, stopAt, owed,
                   after, accepted, invoked>>

HazardNext ==
    \/ \E p \in Producers : ProducerStart(p)
    \/ \E th \in Producers \cup Consumers : DispatchLock(th)
    \/ \E th \in Producers \cup Consumers : DispatchBody(th)
    \/ OwnerBegin
    \/ StopLock(Owner)
    \/ StopBody(Owner)
    \/ WaitLock(Owner)
    \/ WaitCheck(Owner)
    \/ SpuriousWake(Owner)
    \/ \E c \in Consumers : RunOnceLock(c)
    \/ \E c \in Consumers : RunOnceSwap(c)
    \/ \E c \in Consumers : RunOnceEmpty(c)
    \/ \E c \in Consumers : InvokeBegin(c)
    \/ \E c \in Consumers : InvokeEnd(c)
    \/ \E c \in Consumers : ConsumerQuit(c)

HazardSpec == HazardInit /\ [][HazardNext]_vars

\* No thread is in, or will enter, run_once() or run_forever().
Abandoned == \A c \in DOMAIN q : pc[c] = "off"

\* Blocks are left in _queue and nobody will take them.
Stranded == Abandoned /\ _queue # <<>>

\* C12. Destruction hazard: once a directly used queue holds a block and no
\* thread calls run_once() or run_forever() again, the destructor's
\* wait_until_done() has not returned and no step makes it return: the blocks
\* stay in _queue in their order (an open queue may still receive more), a
\* closed queue stays closed with its sequence untouched, and the owner never
\* gets past the wait.
C12_DestructorHangs ==
    /\ [](Stranded => pc[Owner] # "end")
    /\ [][Stranded =>
            /\ Stranded'
            /\ IsPrefix(_queue, _queue')
            /\ pc'[Owner] # "end"
            /\ (_done => _done' /\ _queue' = _queue)]_vars

\* The owner is blocked in the destructor's wait_until_done() on a closed
\* queue that holds a block, after the polling thread gave up.
C12_Witness ==
    /\ Stranded
    /\ _done
    /\ ostep = 3
    /\ pc[Owner] = "w_wait"


\* The step of th is the body of a stop() on a queue that is already closed.
StopAgain(th) == pc[th] = "stop_body" /\ pc'[th] # "stop_body" /\ _done

\* C14. Closed is monotonic and stop() is idempotent: _done is false after
\* construction, is true exactly when a stop() has run, never goes back from
\* true to false, and a second or later stop() leaves _done and _queue exactly
\* as they were.
C14_ClosedMonotonic ==
    /\ ~_done
    /\ [](_done <=> stopped)
    /\ [][_done => _done']_vars
    /\ [][StopAgain(Owner) => _done' = _done /\ _queue' = _queue]_vars

\* The destructor's stop() has run on a queue that was already closed by hand
\* and still holds a block.
C14_Witness ==
    /\ mode = "direct"
    /\ ostep = 3
    /\ _done
    /\ _queue # <<>>


\* ---------------------------------------------------------- lock discipline
\* The next step of th reads _done: the tests under the lock, and the tests
\* that run_once and run_forever make on an empty q after the locked scope.
ReadsDone(th) ==
    \/ pc[th] \in {"d_body", "wait_check", "f_check"}
    \/ th \in DOMAIN q /\ pc[th] \in {"r_test", "f_test"} /\ q[th] = <<>>

\* The next step of th writes _done.
WritesDone(th) == pc[th] = "stop_body"

\* The next step of th reads or writes _queue.
TouchesQueue(th) == pc[th] \in {"d_body", "wait_check", "f_check", "r_swap"}

\* C13. Lock discipline: a thread that is about to read or write _queue or
\* _done holds the mutex, and no thread is about to read _done while another
\* thread is inside stop() about to write it.
C13_LockDiscipline ==
    /\ \A th \in DOMAIN pc :
          (ReadsDone(th) \/ WritesDone(th) \/ TouchesQueue(th)) => mutex = th
    /\ \A r, w \in DOMAIN pc :
          (r # w /\ WritesDone(w)) => ~ReadsDone(r)

\* The accesses that are made inside a locked scope do hold the mutex.
C13_LockedScopes ==
    \A th \in DOMAIN pc :
        (\/ WritesDone(th)
         \/ TouchesQueue(th)
         \/ pc[th] \in {"d_body", "wait_check", "f_check"}) => mutex = th


\* ------------------------------------------------------------ capacity check
\* Clients that dispatch callables of several sizes, compiled with or without
\* NDEBUG.
CapInit ==
    \E m \in {"thread", "poll"}, nd \in BOOLEAN :
        Boot(MaxFairTasks, m, "sized", "inline", nd, Producers, Consumers)

\* The threads of the process when th has called abort().
Aborted(th) == [x \in DOMAIN pc |-> IF x = th THEN "abort" ELSE "dead"]

\* dispatch(F&& lambda) with a wrapper larger than a dispatch_block: the
\* constructor dispatch_block(movable_function_base&&) calls move_to, whose
\* assert(size >= sizeof(*this)) aborts the program. With NDEBUG the assertion
\* is compiled out and the placement new writes the wrapper over the end of
\* the block, a local of dispatch(): the behaviour is undefined, the program
\* goes on into _dispatch with the block or crashes. abort() ends the whole
\* process, every other thread with it.
ProducerOversize(p) ==
    /\ pc[p] = "idle"
    /\ \E b \in NewBlocks :
          /\ ~Fits(b)
          /\ cur' = [cur EXCEPT ![p] = b]
          /\ nextId' = nextId + IdsOf(b)
    /\ IF ndebug
       THEN pc' = [pc EXCEPT ![p] = "d_lock"] \/ pc' = Aborted(p)
       ELSE pc' = Aborted(p)
    /\ result' = [result EXCEPT ![p] = "none"]
    /\ late' = [late EXCEPT ![p] = stopped]
    /\ UNCHANGED <<limit, mode, client, header, ndebug, _done, _queue, mutex,
                   q, i, ostep, stopAt, owed, after, accepted, invoked>>

\* No thread has aborted the program.
Alive == \A th \in DOMAIN pc : pc[th] \notin {"abort", "dead"}

CapNext ==
    \/ Next
    \/ \E p \in Producers : ProducerOversize(p)

CapSpec == CapInit /\ [][CapNext]_vars

\* C15. Capacity check: a dispatch() of a callable whose wrapper is larger
\* than a dispatch_block fails where the block is constructed, before the lock
\* is taken: the calling thread goes no further and no such block is ever in
\* _queue or in a batch; a callable whose wrapper fits is never refused.
C15_CapacityCheck ==
    /\ \A p \in DOMAIN cur : ~Fits(cur[p]) => pc[p] = "abort"
    /\ Alive \/ \E p \in DOMAIN cur : pc[p] = "abort"
    /\ \A k \in 1..Len(_queue) : Fits(_queue[k])
    /\ \A k \in 1..Len(accepted) : Fits(accepted[k])
    /\ \A p \in DOMAIN cur : pc[p] = "abort" => ~Fits(cur[p])

\* With the assertions compiled in, the check does what the claim says.
C15_DebugBuild == ~ndebug => C15_CapacityCheck


\* ---------------------------------------------------------------- one pass
\* The consumers of this state drain with run_once().
Polling == mode \in {"poll", "direct"}

\* The thread is between the swap of a run_once() call and its return, with
\* a batch that is not empty.
InPass(c) == Polling /\ InBatch(c)

\* C16. run_once() is a non-blocking single pass: the polling thread is never
\* waiting on the condition variable; the swap moves the whole of _queue into
\* the batch q and leaves _queue empty; until the call returns the batch does
\* not change, so a block dispatched after the swap stays in _queue, which is
\* only appended to, for a later pass; the blocks invoked are those of the
\* batch, one after the other from the first to the last; and a call whose
\* batch is empty invokes nothing.
C16_RunOncePass ==
    /\ [](Polling => \A c \in DOMAIN q : pc[c] \notin {"f_wait", "w_wait"})
    /\ [][\A c \in DOMAIN q :
            /\ (Polling /\ pc[c] = "r_swap" /\ pc'[c] # "r_swap") =>
                  /\ q'[c] = _queue
                  /\ i'[c] = 1
                  /\ _queue' = <<>>
                  /\ invoked' = invoked
            /\ (Polling /\ pc[c] # "r_swap") => IsPrefix(_queue, _queue')
            /\ InPass(c) =>
                  \/ q'[c] = q[c] /\ i'[c] = i[c] /\ invoked' = invoked
                  \/ /\ q'[c] = q[c] /\ i'[c] = i[c]
                     /\ ~InTask(pc[c]) /\ InTask(pc'[c])
                     /\ invoked' = Hist(invoked, q[c][i[c]])
                  \/ /\ q'[c] = q[c] /\ i'[c] = i[c] + 1
                     /\ InTask(pc[c]) /\ pc'[c] = "next"
                     /\ invoked' = invoked
                  \/ /\ q'[c] = <<>> /\ i[c] = Len(q[c])
                     /\ InTask(pc[c]) /\ pc'[c] = "r_lock"
                     /\ invoked' = invoked
            /\ (Polling /\ pc[c] = "r_test" /\ q[c] = <<>>) =>
                  invoked' = invoked /\ q'[c] = <<>>]_vars

\* run_once() is invoking the second block of its batch while a block that
\* was dispatched after the swap waits in _queue.
C16_Witness ==
    /\ mode = "poll"
    /\ pc[TheConsumer] = "running"
    /\ i[TheConsumer] = 2
    /\ _queue # <<>>
    /\ Len(invoked) = 2


\* -------------------------------------------------------- work after close
\* The ids of the blocks whose invocation began after the first stop()
\* returned.
AfterIds == {after[k].id : k \in 1..Len(after)}

\* C18. Bound on work after close: the invocations that begin after stop()
\* has returned are at most as many as the blocks that were, at that return,
\* in _queue or in the consumer's batch and not yet invoked; they are such
\* blocks, each invoked once, since no dispatch is accepted any more; and of
\* a chain of self-resubmitting blocks at most one more block is invoked.
C18_BoundAfterClose ==
    /\ stopped <=> owed >= 0
    /\ ~stopped => after = <<>>
    /\ stopped =>
          /\ Len(after) <= owed
          /\ Len(after) + Backlog(DOMAIN q) = owed
          /\ \A j, k \in 1..Len(after) : after[j].id = after[k].id => j = k
          /\ \A th \in DOMAIN pc : (late[th] /\ result[th] # "none")
                => result[th] = "false"

\* Two self-resubmitting chains: when stop() returned, a block of one chain
\* was in the batch and a block of the other in _queue; each was invoked once
\* more, its own dispatch was refused, and run_forever has returned.
C18_Witness ==
    /\ client = "recursion"
    /\ owed = 2
    /\ Len(after) = 2
    /\ AfterIds = 1..NumChains
    /\ pc[TheConsumer] = "returned"


\* ------------------------------------------------ include/more_dispatch.h
\* A dispatch_thread of the header with heap-allocated blocks, whose
\* run_forever() and run_once() return without a notification.
OldInit ==
    \E cl \in {"tasks", "recursion"} :
        Boot(MaxFairTasks, "thread", cl, "unique_ptr", FALSE, Producers,
             Consumers)

OldNext ==
    \/ \E p \in Producers : ProducerStart(p)
    \/ \E th \in Producers \cup Consumers : DispatchLock(th)
    \/ \E th \in Producers \cup Consumers : DispatchBody(th)
    \/ OwnerBegin
    \/ StopLock(Owner)
    \/ StopBody(Owner)
    \/ WaitLock(Owner)
    \/ WaitCheck(Owner)
    \/ Join(Owner)
    \/ \E th \in Threads : SpuriousWake(th)
    \/ \E c \in Consumers : RunForeverLock(c)
    \/ \E c \in Consumers : RunForeverSwap(c)
    \/ \E c \in Consumers : RunForeverExit(c)
    \/ \E c \in Consumers : InvokeBegin(c)
    \/ \E c \in Consumers : InvokeEnd(c)

OldSpec == OldInit /\ [][OldNext]_vars /\ Fairness

\* Some thread will still call _cond.notify_all(): the consumer has blocks to
\* invoke or, in the header with inline blocks, has yet to return from
\* run_forever(); a producer is inside a dispatch() that will be accepted.
WillNotify ==
    \/ \E c \in DOMAIN q : pc[c] # "returned" /\ header = "inline"
    \/ ~_done /\ \E p \in DOMAIN cur : pc[p] \in {"d_lock", "d_body"}

\* The owner sleeps in the wait_until_done() of ~dispatch_thread.
OwnerWaits == mode = "thread" /\ ostep = 2 /\ pc[Owner] = "w_wait"

\* C17. ~dispatch_thread of include/more_dispatch.h returns: whenever the
\* owner sleeps in the destructor's wait_until_done() on a queue that is
\* stopped and empty, some thread is still going to notify the condition
\* variable, so that the wait returns and the thread is joined.
C17_OldDestructorReturns ==
    (OwnerWaits /\ _done /\ _queue = <<>>) => WillNotify

\* The same wait, as a progress property under the fair scheduler.
C17_OldWaitReturns == (header = "unique_ptr" /\ ostep = 2) ~> (ostep > 2)


\* ------------------------------------------------------------ two consumers
\* A dispatch_queue drained by two threads at once, both polling with
\* run_once() or both inside run_forever(), against the advice of the class
\* comment.
TwoConsumers == {"c1", "c2"}

TwoInit ==
    \E m \in {"poll", "workers"} :
        Boot(MaxFairTasks, m, "tasks", "inline", FALSE, Producers,
             TwoConsumers)

TwoNext ==
    \/ \E p \in Producers : ProducerStart(p)
    \/ \E th \in Producers \cup TwoConsumers : DispatchLock(th)
    \/ \E th \in Producers \cup TwoConsumers : DispatchBody(th)
    \/ OwnerBegin
    \/ StopLock(Owner)
    \/ StopBody(Owner)
    \/ WaitLock(Owner)
    \/ WaitCheck(Owner)
    \/ \E th \in TwoConsumers \cup {Owner} : SpuriousWake(th)
    \/ \E c \in TwoConsumers : RunForeverLock(c)
    \/ \E c \in TwoConsumers : RunForeverSwap(c)
    \/ \E c \in TwoConsumers : RunForeverExit(c)
    \/ \E c \in TwoConsumers : RunOnceLock(c)
    \/ \E c \in TwoConsumers : RunOnceSwap(c)
    \/ \E c \in TwoConsumers : RunOnceEmpty(c)
    \/ \E c \in TwoConsumers : InvokeBegin(c)
    \/ \E c \in TwoConsumers : InvokeEnd(c)

TwoSpec == TwoInit /\ [][TwoNext]_vars

\* The blocks that sit in the batches of the consumers, not yet invoked.
InBatches == UNION {Range(Pending(c)) : c \in DOMAIN q}

\* C19. Two concurrent consumers: every accepted block is in exactly one
\* place, among the invoked ones, in the batch of one consumer or in _queue,
\* and no block is invoked twice; when both run_forever() calls have returned
\* every accepted block has been invoked. (The order of invocation need not
\* be the order of acceptance: the witness is such a run.)
C19_ExactlyOnce ==
    /\ Range(accepted) = Range(invoked) \cup InBatches \cup Range(_queue)
    /\ Len(accepted) = Len(invoked) + Backlog(DOMAIN q)
    /\ \A j, k \in 1..Len(invoked) : invoked[j] = invoked[k] => j = k
    /\ \A c, d \in DOMAIN q :
          c # d => Range(Pending(c)) \cap Range(Pending(d)) = {}
    /\ (\A c \in DOMAIN q : pc[c] = "returned") =>
          /\ Range(invoked) = Range(accepted)
          /\ _queue = <<>>

\* Both accepted blocks were invoked, each once, the second before the first.
C19_Witness ==
    /\ DOMAIN q = TwoConsumers
    /\ Len(accepted) = 2
    /\ Len(invoked) = 2
    /\ invoked[1] = accepted[2]
    /\ invoked[2] = accepted[1]


TypeOK ==
    /\ mode \in {"thread", "poll", "direct", "solo", "workers"}
    /\ client \in {"tasks", "recursion", "sized"}
    /\ header \in {"inline", "unique_ptr"}
    /\ ndebug \in BOOLEAN
    /\ _done \in BOOLEAN
    /\ mutex \in DOMAIN pc \cup {NoThread}
    /\ owed \in -1..limit
    /\ Len(after) <= MaxHist
    /\ Len(_queue) <= limit
    /\ nextId \in 1..(limit + 1)
    /\ ostep \in 0..(Len(Script(mode)) + 1)
====
